---- MODULE Spec2Model ----
(***************************************************************************)
(* The file-sharing API handler of lambdas/api_handler/main.py: one Lambda *)
(* entry point (lambda_handler) routing to handle_upload, handle_list and  *)
(* handle_download over an S3 bucket and a DynamoDB table.                 *)
(*                                                                         *)
(* Python values are tagged records [type |-> ..., val |-> ...].  A text   *)
(* that is only ever taken apart by the router (a path, a file id, a file  *)
(* name, a blob key) is a sequence of one-character strings.  The text of  *)
(* file_content is held run-length encoded, <<[ch |-> c, n |-> k]>> being  *)
(* the character c repeated k times, so that contents around the 20 MiB    *)
(* cap are values the model can hold.                                      *)
(***************************************************************************)
EXTENDS Integers, Sequences, FiniteSets, TLC

\* ------------------------------------------------------------------ bounds
\* Lambda invocations that can be in progress at the same time.
NumProcs == 2
\* Identifiers uuid4() can still draw; every upload that reaches it uses one.
NumIds == 2
\* Records a metadata table can hold in the listing specification.
MaxItems == 3

Procs == 1 .. NumProcs

\* ------------------------------------------------------------ program data
MAX_BYTES == 20 * 1024 * 1024

\* ExpiresIn of the pre-signed URL.
EXPIRES_IN == 3600

None == [type |-> "NoneType"]
PyStr(s) == [type |-> "str", val |-> s]
PyInt(n) == [type |-> "int", val |-> n]
\* decimal.Decimal with value val / 10^scale.
Decimal(n, s) == [type |-> "Decimal", val |-> n, scale |-> s]
PyFloat(n, s) == [type |-> "float", val |-> n, scale |-> s]

\* dict.get(key, default) on a dict held as a function.
Get(d, k, default) == IF k \in DOMAIN d THEN d[k] ELSE default

\* Python truthiness of the values a JSON body field can hold.
Truthy(v) ==
  CASE v.type = "NoneType" -> FALSE
    [] v.type = "str" -> v.val # <<>>
    [] v.type = "int" -> v.val # 0
    [] OTHER -> TRUE

\* ---------------------------------------------------------------- strings
Concat(a, b) == a \o b

StartsWith(s, prefix) ==
  /\ Len(s) >= Len(prefix)
  /\ SubSeq(s, 1, Len(prefix)) = prefix

HexDigits == {"0", "1", "2", "3", "4", "5", "6", "7", "8", "9",
              "a", "b", "c", "d", "e", "f", "A", "B", "C", "D", "E", "F"}

\* The characters the model's texts are built from, with their codes as the
\* two hexadecimal digits a percent-escape carries.
CharCode ==
  [c \in {"a", "b", "-", "_", "4", "/", "%"} |->
     CASE c = "a" -> <<"6", "1">>
       [] c = "b" -> <<"6", "2">>
       [] c = "-" -> <<"2", "d">>
       [] c = "_" -> <<"5", "f">>
       [] c = "4" -> <<"3", "4">>
       [] c = "/" -> <<"2", "f">>
       [] c = "%" -> <<"2", "5">>]

Lower(h) ==
  CASE h = "A" -> "a" [] h = "B" -> "b" [] h = "C" -> "c"
    [] h = "D" -> "d" [] h = "E" -> "e" [] h = "F" -> "f" [] OTHER -> h

\* The character a percent-escape %h1h2 stands for; "?" is any character
\* outside the model's alphabet.
Unescape(h1, h2) ==
  LET hit == {c \in DOMAIN CharCode : CharCode[c] = <<Lower(h1), Lower(h2)>>}
  IN IF hit = {} THEN "?" ELSE CHOOSE c \in hit : TRUE

\* Mutant: the path segment is used undecoded.
unquoteNothing(s) == s

\* urllib.parse.unquote: every %XX with two hexadecimal digits is replaced by
\* the character it encodes; any other "%" is kept as it is.
RECURSIVE unquote(_)
unquote(s) ==
  IF s = <<>> THEN <<>>
  ELSE IF /\ Head(s) = "%"
          /\ Len(s) >= 3
          /\ s[2] \in HexDigits
          /\ s[3] \in HexDigits
       THEN <<Unescape(s[2], s[3])>> \o unquote(SubSeq(s, 4, Len(s)))
       ELSE <<Head(s)>> \o unquote(Tail(s))

\* str.encode() of one character: its UTF-8 bytes.
Utf8 ==
  [c \in {"a", "e'"} |-> IF c = "a" THEN <<97>> ELSE <<195, 169>>]

\* str.encode() of a run-length encoded text: the same runs, in bytes.
encode(text) == [i \in 1 .. Len(text) |-> [unit |-> Utf8[text[i].ch], n |-> text[i].n]]

\* len() of the bytes of a run-length encoded text.
RECURSIVE LenBytes(_)
LenBytes(data) ==
  IF data = <<>> THEN 0
  ELSE Len(Head(data).unit) * Head(data).n + LenBytes(Tail(data))

\* ----------------------------------------------------------------- inputs
\* str(uuid.uuid4()): texts of one fixed length over hexadecimal digits and
\* "-" (36 characters in the program, 3 here), all different.
HexPair == <<"a", "b">>
UuidOf(i) == <<HexPair[((i - 1) % 2) + 1], "-", HexPair[(((i - 1) \div 2) % 2) + 1]>>
Uuids == {UuidOf(i) : i \in 1 .. NumIds}

FileNames == {<<"a">>, <<"_", "a">>}

\* File contents as texts: empty, one byte over the cap, and two-byte
\* characters that reach the cap exactly or pass it with half as many
\* characters as the cap has bytes.
Texts ==
  { <<>>,
    <<[ch |-> "a", n |-> MAX_BYTES + 1]>>,
    <<[ch |-> "e'", n |-> MAX_BYTES \div 2]>>,
    <<[ch |-> "e'", n |-> (MAX_BYTES \div 2) + 1]>> }

\* A key a JSON object does not carry.
Absent == [type |-> "absent"]

\* The values the body's three keys take.
NameValues == {Absent, PyStr(<<>>)} \cup {PyStr(n) : n \in FileNames}
ContentValues == {Absent, None, PyInt(7)} \cup {PyStr(t) : t \in Texts}
TextPlain == <<"t", "e", "x", "t", "/", "p", "l", "a", "i", "n">>
TypeValues == {Absent, PyStr(<<"a", "/", "b">>)}

Field(k, name, content, ctype) ==
  CASE k = "file_name" -> name
    [] k = "file_content" -> content
    [] k = "content_type" -> ctype

\* A JSON object with the keys that are not Absent.
JsonObject(name, content, ctype) ==
  [type |-> "dict",
   val |-> [k \in {x \in {"file_name", "file_content", "content_type"} :
                     Field(x, name, content, ctype) # Absent}
              |-> Field(k, name, content, ctype)]]

\* What json.loads makes of a body text: it raises, or returns a value.
Malformed == [ok |-> FALSE]
Parsed(v) == [ok |-> TRUE, value |-> v]
BodyText(loads) == [type |-> "str", loads |-> loads]

\* The bodies of POST /upload: none, no JSON, JSON that is no object, and
\* objects that vary one key at a time around a valid upload, or lack two.
UploadBodies ==
  {None, BodyText(Malformed), BodyText(Parsed([type |-> "list", val |-> <<>>])),
   BodyText(Parsed(None))}
  \cup {BodyText(Parsed(JsonObject(n, PyStr(<<>>), Absent))) : n \in NameValues}
  \cup {BodyText(Parsed(JsonObject(PyStr(<<"a">>), c, Absent))) : c \in ContentValues}
  \cup {BodyText(Parsed(JsonObject(PyStr(<<"a">>), PyStr(<<>>), t))) : t \in TypeValues}
  \cup {BodyText(Parsed(JsonObject(Absent, Absent, Absent))),
        BodyText(Parsed(JsonObject(Absent, PyInt(7), Absent))),
        BodyText(Parsed(JsonObject(PyStr(<<>>),
                                   PyStr(<<[ch |-> "a", n |-> MAX_BYTES + 1]>>), Absent)))}

RootPath == <<"/">>
HealthPath == <<"/", "h", "e", "a", "l", "t", "h">>
UploadPath == <<"/", "u", "p", "l", "o", "a", "d">>
FilesPath == <<"/", "f", "i", "l", "e", "s">>
FilesPrefix == <<"/", "f", "i", "l", "e", "s", "/">>

\* A client's percent-encoding of a text: one character escaped.
PercentEncode(s) == <<"%">> \o CharCode[Head(s)] \o Tail(s)

\* The identifiers requested: every one uuid4() can draw, as it is and
\* percent-encoded, the empty one, and texts that are no identifier.
RequestedIds ==
  Uuids \cup {PercentEncode(u) : u \in Uuids}
        \cup {<<>>, <<"%">>, <<"%", "4", "/">>, <<"a", "-", "a", "_", "a">>}

Methods == {"GET", "POST", "DELETE"}
Paths ==
  {<<>>, RootPath, HealthPath, UploadPath, FilesPath, <<"/", "a">>}
  \cup {FilesPrefix \o i : i \in RequestedIds}

\* The two event shapes of the HTTP trigger, and events that lack fields.
EventV2(m, path, body) ==
  [requestContext |-> [type |-> "dict", http |-> [type |-> "dict", method |-> m]],
   rawPath |-> path, body |-> body]
EventV1(m, path, body) ==
  [requestContext |-> [type |-> "dict", stage |-> "dev"],
   httpMethod |-> m, path |-> path, body |-> body]

Events ==
  {EventV2("POST", UploadPath, b) : b \in UploadBodies}
  \cup {EventV1("POST", UploadPath, b) :
          b \in {None, BodyText(Parsed(JsonObject(PyStr(<<"a">>),
                        PyStr(<<[ch |-> "a", n |-> MAX_BYTES + 1]>>), Absent)))}}
  \cup {EventV2("GET", p, None) : p \in Paths}
  \cup {EventV2(m, p, None) : m \in Methods, p \in {HealthPath, UploadPath, FilesPath}}
  \cup {EventV1("GET", p, None) :
          p \in {RootPath, FilesPath, FilesPrefix, FilesPrefix \o UuidOf(1)}}
  \cup { [body |-> None],
         [requestContext |-> None, httpMethod |-> "GET", path |-> FilesPath],
         [requestContext |-> [type |-> "dict", http |-> None],
          httpMethod |-> "GET", path |-> HealthPath],
         [requestContext |-> [type |-> "dict", http |-> [type |-> "dict", method |-> "GET"]],
          path |-> FilesPath] }

\* datetime.now(timezone.utc).isoformat(): texts over digits, compared by
\* code point.
Timestamps == {<<"1">>, <<"1", "0">>, <<"2">>}
Now == {<<"1">>, <<"2">>}

\* str(e) of the exception a store call raises.
ErrorDetails == {"ClientError"}

\* ------------------------------------------------------------------ state
VARIABLES
  s3,        \* the bucket: key -> object
  table,     \* the DynamoDB table: file_id -> item
  issued,    \* identifiers uuid4() has returned
  pc,        \* per invocation: where its handler stands
  req,       \* per invocation: the event it handles
  frame,     \* per invocation: the handler's local variables
  resp,      \* per invocation: what lambda_handler returned or raised
  uploads    \* history: every upload that reached a store call, with its outcome

vars == <<s3, table, issued, pc, req, frame, resp, uploads>>

NoEvent == [none |-> TRUE]
NoFrame == [none |-> TRUE]
NoResp == [none |-> TRUE]

\* ------------------------------------------------------- helper functions
dumps(body) == [json |-> body]

_resp(status, body) ==
  [statusCode |-> status,
   headers |-> [content_type |-> "application/json"],
   body |-> dumps(body)]

\* lambda_handler ended by raising exc.
Raised(exc) == [exception |-> exc]

_parse_request(event) ==
  LET rc0 == Get(event, "requestContext", None)
      rc == IF rc0.type = "NoneType" THEN [type |-> "dict"] ELSE rc0
      http == Get(rc, "http", None)
  IN IF http.type = "dict" /\ "method" \in DOMAIN http
     THEN <<Get(http, "method", ""), Get(event, "rawPath", <<>>)>>
     ELSE <<Get(event, "httpMethod", ""), Get(event, "path", <<>>)>>

_json_body(event) ==
  LET body == Get(event, "body", None)
  IN IF body.type = "NoneType" THEN [type |-> "dict", val |-> <<>>]
     ELSE IF body.loads.ok THEN body.loads.value
     ELSE [type |-> "dict", val |-> <<>>]

\* ------------------------------------------------------------ main handler
\* str.split(sep, 1)[1]: what follows the first occurrence of sep.
RECURSIVE AfterFirst(_, _)
AfterFirst(s, sep) ==
  IF StartsWith(s, sep) THEN SubSeq(s, Len(sep) + 1, Len(s))
  ELSE AfterFirst(Tail(s), sep)

\* The file_id lambda_handler hands to handle_download.
PathFileId(path) == unquote(AfterFirst(path, FilesPrefix))

\* The branch lambda_handler takes.
Route(event) ==
  LET method == _parse_request(event)[1]
      path == _parse_request(event)[2]
  IN IF method = "GET" /\ (path = RootPath \/ path = HealthPath) THEN "health"
     ELSE IF method = "POST" /\ path = UploadPath THEN "upload"
     ELSE IF method = "GET" /\ path = FilesPath THEN "list"
     ELSE IF method = "GET" /\ StartsWith(path, FilesPrefix) THEN "download"
     ELSE "not_found"

\* lambda_handler returns r (or ends raising it) in invocation p.
Finish(p, r) ==
  /\ pc' = [pc EXCEPT ![p] = "done"]
  /\ resp' = [resp EXCEPT ![p] = r]

Health(p, e) ==
  /\ pc[p] = "ready"
  /\ Route(e) = "health"
  /\ req' = [req EXCEPT ![p] = e]
  /\ Finish(p, _resp(200, [status |-> "ok"]))
  /\ UNCHANGED <<s3, table, issued, frame, uploads>>

NotFound(p, e) ==
  /\ pc[p] = "ready"
  /\ Route(e) = "not_found"
  /\ req' = [req EXCEPT ![p] = e]
  /\ Finish(p, _resp(404, [error |-> "Not Found"]))
  /\ UNCHANGED <<s3, table, issued, frame, uploads>>

\* The runtime hands the response back; the invocation slot is free again.
Return(p) ==
  /\ pc[p] = "done"
  /\ pc' = [pc EXCEPT ![p] = "ready"]
  /\ req' = [req EXCEPT ![p] = NoEvent]
  /\ frame' = [frame EXCEPT ![p] = NoFrame]
  /\ resp' = [resp EXCEPT ![p] = NoResp]
  /\ UNCHANGED <<s3, table, issued, uploads>>

\* ----------------------------------------------------------- handle_upload
\* "not file_name or file_content is None"
Invalid(file_name, file_content) ==
  ~Truthy(file_name) \/ file_content.type = "NoneType"

\* "file_content.encode() if isinstance(file_content, str) else file_content"
ToBytes(file_content) ==
  IF file_content.type = "str"
  THEN [type |-> "bytes", val |-> encode(file_content.val)]
  ELSE file_content

\* len(data) is defined for bytes; for a number it raises TypeError.
HasLen(data) == data.type = "bytes"

\* Mutant: the size is the number of characters, not of bytes.
RECURSIVE LenChars(_)
LenChars(data) ==
  IF data = <<>> THEN 0 ELSE Head(data).n + LenChars(Tail(data))
SizeOfChars(data) == LenChars(data.val)

SizeOf(data) == LenBytes(data.val)

\* Mutant: a content of exactly the cap is rejected.
TooLargeAtCap(size_bytes) == size_bytes >= MAX_BYTES

TooLarge(size_bytes) == size_bytes > MAX_BYTES

\* Mutant: another separator than the derived key's.
UploadKeyDash(file_id, file_name) == Concat(Concat(file_id, <<"-">>), file_name)

\* Mutant: the key is the file name alone.
UploadKeyNameOnly(file_id, file_name) == file_name

\* f"{file_id}_{file_name}" in handle_upload.
UploadKey(file_id, file_name) == Concat(Concat(file_id, <<"_">>), file_name)

\* uuid.uuid4(): an identifier never returned before.
FreshIds == Uuids \ issued

\* The object put_object stores.
S3Object(f) ==
  [Body |-> f.data.val,
   ContentType |-> f.content_type,
   Metadata |-> [file_id |-> f.file_id, original_name |-> f.file_name]]

\* The item put_item stores; DynamoDB holds (and returns) a number as a Decimal.
ToDynamo(v) == IF v.type = "int" THEN Decimal(v.val, 0) ELSE v

Item(f, now) ==
  [k \in {"file_id", "file_name", "size", "upload_timestamp", "content_type"} |->
     ToDynamo(CASE k = "file_id" -> PyStr(f.file_id)
                [] k = "file_name" -> PyStr(f.file_name)
                [] k = "size" -> PyInt(f.size_bytes)
                [] k = "upload_timestamp" -> PyStr(now)
                [] k = "content_type" -> PyStr(f.content_type))]

\* An item under its primary key, replacing the one there.
Put(store, k, v) == [x \in DOMAIN store \cup {k} |-> IF x = k THEN v ELSE store[x]]

\* The history's record of an upload that ended: the event, what the handler
\* drew and derived, which store calls succeeded, and the response.
Ended(p, s3_ok, ddb_ok, r) ==
  [event |-> req[p], file_id |-> frame[p].file_id, key |-> frame[p].key,
   s3_ok |-> s3_ok, ddb_ok |-> ddb_ok,
   statusCode |-> r.statusCode,
   error |-> Get(r.body.json, "error", "")]

\* Mutant: the message of the blob write's except clause.
DdbWriteFailedAsS3(d) == _resp(500, [error |-> "S3 upload failed: ", detail |-> d])

\* The response to a metadata write that raised.
DdbWriteFailed(d) == _resp(500, [error |-> "DynamoDB write failed: ", detail |-> d])

\* handle_upload up to the identifier and the key: validation, size.
UploadBegin(p, e) ==
  /\ pc[p] = "ready"
  /\ Route(e) = "upload"
  /\ req' = [req EXCEPT ![p] = e]
  /\ LET body == _json_body(e) IN
     IF body.type # "dict"
     THEN /\ Finish(p, Raised("AttributeError"))
          /\ UNCHANGED <<issued, frame>>
     ELSE
       LET file_name == Get(body.val, "file_name", None)
           file_content == Get(body.val, "file_content", None)
           ct == Get(body.val, "content_type", None)
           content_type == IF Truthy(ct) THEN ct.val ELSE TextPlain
           data == ToBytes(file_content)
       IN IF Invalid(file_name, file_content)
          THEN /\ Finish(p, _resp(400, [error |-> "Provide file_name and file_content"]))
               /\ UNCHANGED <<issued, frame>>
          ELSE IF ~HasLen(data)
          THEN /\ Finish(p, Raised("TypeError"))
               /\ UNCHANGED <<issued, frame>>
          ELSE IF TooLarge(SizeOf(data))
          THEN /\ Finish(p, _resp(413, [error |-> "File too large (>20MB)"]))
               /\ UNCHANGED <<issued, frame>>
          ELSE \E file_id \in FreshIds :
                 /\ issued' = issued \cup {file_id}
                 /\ frame' = [frame EXCEPT ![p] =
                      [file_name |-> file_name.val,
                       content_type |-> content_type,
                       data |-> data,
                       size_bytes |-> SizeOf(data),
                       file_id |-> file_id,
                       key |-> UploadKey(file_id, file_name.val)]]
                 /\ pc' = [pc EXCEPT ![p] = "s3_put"]
                 /\ UNCHANGED resp
  /\ UNCHANGED <<s3, table, uploads>>

\* s3.put_object and its except clause.
S3Put(p) ==
  /\ pc[p] = "s3_put"
  /\ \/ /\ s3' = Put(s3, frame[p].key, S3Object(frame[p]))
        /\ pc' = [pc EXCEPT ![p] = "ddb_put"]
        /\ UNCHANGED <<resp, uploads>>
     \/ \E d \in ErrorDetails :
          LET r == _resp(500, [error |-> "S3 upload failed: ", detail |-> d]) IN
          /\ Finish(p, r)
          /\ uploads' = uploads \cup {Ended(p, FALSE, FALSE, r)}
          /\ UNCHANGED s3
  /\ UNCHANGED <<table, issued, req, frame>>

\* table.put_item, its except clause, and the final response.
DdbPut(p, now) ==
  /\ pc[p] = "ddb_put"
  /\ \/ LET r == _resp(200, [file_id |-> frame[p].file_id,
                               file_name |-> frame[p].file_name]) IN
          /\ table' = Put(table, frame[p].file_id, Item(frame[p], now))
          /\ Finish(p, r)
          /\ uploads' = uploads \cup {Ended(p, TRUE, TRUE, r)}
     \/ \E d \in ErrorDetails :
          LET r == DdbWriteFailed(d) IN
          /\ Finish(p, r)
          /\ uploads' = uploads \cup {Ended(p, TRUE, FALSE, r)}
          /\ UNCHANGED table
  /\ UNCHANGED <<s3, issued, req, frame>>

\* ------------------------------------------------------ _convert_decimals
RECURSIVE Pow10(_)
Pow10(k) == IF k = 0 THEN 1 ELSE 10 * Pow10(k - 1)

\* "int(obj) if obj == obj.to_integral_value() else float(obj)"; any other
\* scalar is returned as it is.
ConvertScalar(obj) ==
  IF obj.type = "Decimal"
  THEN IF obj.val % Pow10(obj.scale) = 0
       THEN PyInt(obj.val \div Pow10(obj.scale))
       ELSE PyFloat(obj.val, obj.scale)
  ELSE obj

\* The dict branch: every value converted, the keys kept.
ConvertDict(obj) == [k \in DOMAIN obj |-> ConvertScalar(obj[k])]

\* The list branch: every element converted, the order kept.
ConvertList(obj) == [i \in 1 .. Len(obj) |-> ConvertDict(obj[i])]

\* ------------------------------------------------------------- handle_list
CodePoint == [c \in {"0", "1", "2"} |-> IF c = "0" THEN 48 ELSE IF c = "1" THEN 49 ELSE 50]

\* a < b on str: lexicographic by code point.
RECURSIVE StrLess(_, _)
StrLess(a, b) ==
  IF b = <<>> THEN FALSE
  ELSE IF a = <<>> THEN TRUE
  ELSE IF Head(a) = Head(b) THEN StrLess(Tail(a), Tail(b))
  ELSE CodePoint[Head(a)] < CodePoint[Head(b)]

\* "lambda x: x.get("upload_timestamp", "")"
SortKey(x) == Get(x, "upload_timestamp", PyStr(<<>>))

\* a < b on two sort keys of one kind (str, or numbers).
KeyLess(a, b) ==
  IF a.type = "str" THEN StrLess(a.val, b.val)
  ELSE a.val * Pow10(Get(b, "scale", 0)) < b.val * Pow10(Get(a, "scale", 0))

\* Comparing a str key with a number raises TypeError.
Comparable(items) ==
  \A i, j \in 1 .. Len(items) :
    (SortKey(items[i]).type = "str") = (SortKey(items[j]).type = "str")

\* Mutant: reverse=True is missing.
RECURSIVE InsertAsc(_, _)
InsertAsc(sorted, x) ==
  IF sorted = <<>> THEN <<x>>
  ELSE IF KeyLess(SortKey(x), SortKey(Head(sorted))) THEN <<x>> \o sorted
  ELSE <<Head(sorted)>> \o InsertAsc(Tail(sorted), x)

\* list.sort(key=..., reverse=True): descending and stable, an element going
\* behind every element whose key is not smaller than its own.
RECURSIVE InsertDesc(_, _)
InsertDesc(sorted, x) ==
  IF sorted = <<>> THEN <<x>>
  ELSE IF KeyLess(SortKey(Head(sorted)), SortKey(x)) THEN <<x>> \o sorted
  ELSE <<Head(sorted)>> \o InsertDesc(Tail(sorted), x)

RECURSIVE SortDesc(_)
SortDesc(items) ==
  IF items = <<>> THEN <<>>
  ELSE InsertDesc(SortDesc(SubSeq(items, 1, Len(items) - 1)), items[Len(items)])

\* table.scan(): every item of the table, in an order the store chooses.
ScanResults ==
  LET n == Cardinality(DOMAIN table)
  IN {[i \in 1 .. n |-> table[order[i]]] :
        order \in {o \in [1 .. n -> DOMAIN table] : \A i, j \in 1 .. n : o[i] = o[j] => i = j}}

\* handle_list: the scan, the conversion, the sort and the except clause.
HandleList(p, e) ==
  /\ pc[p] = "ready"
  /\ Route(e) = "list"
  /\ req' = [req EXCEPT ![p] = e]
  /\ \/ \E scanned \in ScanResults :
          LET items == ConvertList(scanned) IN
          IF Comparable(items)
          THEN Finish(p, _resp(200, SortDesc(items)))
          ELSE Finish(p, _resp(500, [error |-> "DynamoDB scan failed: ",
                                     detail |-> "TypeError"]))
     \/ \E d \in ErrorDetails :
          Finish(p, _resp(500, [error |-> "DynamoDB scan failed: ", detail |-> d]))
  /\ UNCHANGED <<s3, table, issued, frame, uploads>>

\* --------------------------------------------------------- handle_download
BUCKET_NAME == "bucket"

\* f"{file_id}_{file_name}" in handle_download.
DownloadKey(file_id, file_name) == Concat(Concat(file_id, <<"_">>), file_name)

\* s3.generate_presigned_url: a capability to read one key for a time.
PresignedUrl(key) == [Bucket |-> BUCKET_NAME, Key |-> key, ExpiresIn |-> EXPIRES_IN]

\* Mutant: the status of a validation error.
FileNotFoundAs400 == _resp(400, [error |-> "File not found"])

\* The response to "if not item".
FileNotFound == _resp(404, [error |-> "File not found"])

\* handle_download up to the key: table.get_item, "if not item", the
\* conversion, the except clause, and item["file_name"].
DownloadGetItem(p, e) ==
  /\ pc[p] = "ready"
  /\ Route(e) = "download"
  /\ req' = [req EXCEPT ![p] = e]
  /\ LET file_id == PathFileId(_parse_request(e)[2]) IN
     \/ /\ file_id \notin DOMAIN table
        /\ Finish(p, FileNotFound)
        /\ UNCHANGED frame
     \/ /\ file_id \in DOMAIN table
        /\ LET item == ConvertDict(table[file_id]) IN
           IF "file_name" \notin DOMAIN item
           THEN /\ Finish(p, Raised("KeyError"))
                /\ UNCHANGED frame
           ELSE /\ frame' = [frame EXCEPT ![p] =
                      [file_id |-> file_id,
                       file_name |-> item["file_name"].val,
                       key |-> DownloadKey(file_id, item["file_name"].val)]]
                /\ pc' = [pc EXCEPT ![p] = "presign"]
                /\ UNCHANGED resp
     \/ \E d \in ErrorDetails :
          /\ Finish(p, _resp(500, [error |-> "DynamoDB read failed: ", detail |-> d]))
          /\ UNCHANGED frame
  /\ UNCHANGED <<s3, table, issued, uploads>>

\* s3.generate_presigned_url, the response and the except clause.
Presign(p) ==
  /\ pc[p] = "presign"
  /\ \/ Finish(p, _resp(200, [file_id |-> frame[p].file_id,
                              file_name |-> frame[p].file_name,
                              download_url |-> PresignedUrl(frame[p].key)]))
     \/ \E d \in ErrorDetails :
          Finish(p, _resp(500, [error |-> "Could not generate download URL: ",
                                detail |-> d]))
  /\ UNCHANGED <<s3, table, issued, req, frame, uploads>>

\* ---------------------------------------------------------- specification
Init ==
  /\ s3 = <<>>
  /\ table = <<>>
  /\ issued = {}
  /\ pc = [p \in Procs |-> "ready"]
  /\ req = [p \in Procs |-> NoEvent]
  /\ frame = [p \in Procs |-> NoFrame]
  /\ resp = [p \in Procs |-> NoResp]
  /\ uploads = {}

\* lambda_handler on event e, up to its first store call.
Invoke(p, e) ==
  \/ Health(p, e)
  \/ NotFound(p, e)
  \/ UploadBegin(p, e)
  \/ HandleList(p, e)
  \/ DownloadGetItem(p, e)

\* A handler in progress goes on, or its response is handed back.
Continue(p) ==
  \/ S3Put(p)
  \/ \E now \in Now : DdbPut(p, now)
  \/ Presign(p)
  \/ Return(p)

\* One invocation after the other, over every event.
Next ==
  \/ \E e \in Events : Invoke(1, e)
  \/ Continue(1)

Spec == Init /\ [][Next]_vars

\* ------------------------------------------------- uploads side by side
\* The uploads of the concurrent specification: one name with two contents,
\* another name, and a body that fails validation.
UploadEvents ==
  {EventV2("POST", UploadPath, BodyText(Parsed(JsonObject(PyStr(n), PyStr(t), Absent)))) :
     n \in FileNames, t \in {<<>>, <<[ch |-> "e'", n |-> MAX_BYTES \div 2]>>}}
  \cup {EventV2("POST", UploadPath, None)}

\* Every invocation is an upload; their steps interleave in every way.
NextUploads ==
  \E p \in Procs :
    \/ \E e \in UploadEvents : UploadBegin(p, e)
    \/ S3Put(p)
    \/ \E now \in Now : DdbPut(p, now)
    \/ Return(p)

SpecUploads == Init /\ [][NextUploads]_vars

\* ------------------------------------------------ the listing, on any table
ListIds == {UuidOf(i) : i \in 1 .. MaxItems}

\* The records a table may hold under one file_id: written by handle_upload
\* at any time, without upload_timestamp, or with a number in its place.
StoredItems(id) ==
  {[file_id |-> PyStr(id), file_name |-> PyStr(<<"a">>), size |-> Decimal(15, 1)]}
  \cup {[file_id |-> PyStr(id), file_name |-> PyStr(<<"a">>), size |-> Decimal(30, 1),
         upload_timestamp |-> PyStr(t)] : t \in Timestamps}
  \cup {[file_id |-> PyStr(id), file_name |-> PyStr(<<"a">>), size |-> Decimal(3, 0),
         upload_timestamp |-> Decimal(5, 0)]}

ListTables ==
  UNION {{t \in [D -> UNION {StoredItems(id) : id \in D}] :
            \A id \in D : t[id] \in StoredItems(id)} : D \in SUBSET ListIds}

InitList ==
  /\ table \in ListTables
  /\ s3 = <<>>
  /\ issued = {}
  /\ pc = [p \in Procs |-> "ready"]
  /\ req = [p \in Procs |-> NoEvent]
  /\ frame = [p \in Procs |-> NoFrame]
  /\ resp = [p \in Procs |-> NoResp]
  /\ uploads = {}

NextList ==
  \/ \E e \in {EventV2("GET", FilesPath, None), EventV1("GET", FilesPath, None)} :
       HandleList(1, e)
  \/ Return(1)

SpecList == InitList /\ [][NextList]_vars

\* ------------------------------------------------- vocabulary of the claims
\* The method and the path a client put into a well-formed event.
Method(e) ==
  IF "rawPath" \in DOMAIN e THEN e.requestContext.http.method ELSE Get(e, "httpMethod", "")
Path(e) ==
  IF "rawPath" \in DOMAIN e THEN e.rawPath ELSE Get(e, "path", <<>>)

IsUploadRequest(e) == Method(e) = "POST" /\ Path(e) = UploadPath
IsListRequest(e) == Method(e) = "GET" /\ Path(e) = FilesPath

\* The body is the text of a JSON object, and the value it gives a key.
IsObject(e) ==
  /\ e.body.type = "str"
  /\ e.body.loads.ok
  /\ e.body.loads.value.type = "dict"
FieldOf(e, k) == IF IsObject(e) THEN Get(e.body.loads.value.val, k, Absent) ELSE Absent

\* file_name is missing or empty, or file_content is absent or null.
LacksInput(e) ==
  \/ FieldOf(e, "file_name").type \in {"absent", "NoneType"}
  \/ FieldOf(e, "file_name").type = "str" /\ FieldOf(e, "file_name").val = <<>>
  \/ FieldOf(e, "file_content").type \in {"absent", "NoneType"}

SubmittedName(e) == FieldOf(e, "file_name").val
SubmittedText(e) == FieldOf(e, "file_content").val

\* The UTF-8 bytes of a text and their number.
BytesOf(text) ==
  [i \in 1 .. Len(text) |->
     [unit |-> IF text[i].ch = "a" THEN <<97>> ELSE <<195, 169>>, n |-> text[i].n]]
RECURSIVE ByteLength(_)
ByteLength(text) ==
  IF text = <<>> THEN 0
  ELSE (IF Head(text).ch = "a" THEN 1 ELSE 2) * Head(text).n + ByteLength(Tail(text))

\* The derived key {file_id}_{file_name} of the data model.
DerivedKey(file_id, file_name) == file_id \o <<"_">> \o file_name

\* The paths under which a client asks for the file id: as it is, or with
\* its first character percent-encoded.
ClientPaths(id) ==
  {FilesPrefix \o id}
  \cup (IF id # <<>> /\ Head(id) \in DOMAIN CharCode
        THEN {FilesPrefix \o PercentEncode(id)} ELSE {})
IsDownloadOf(e, id) == Method(e) = "GET" /\ Path(e) \in ClientPaths(id)

IsEnvelope(r) == "statusCode" \in DOMAIN r
Status(r, status) == IsEnvelope(r) /\ r.statusCode = status
ErrorIs(r, status, message) == Status(r, status) /\ r.body.json.error = message

\* Invocation p takes its first step, and its handler's steps.
Began(p) == pc[p] = "ready" /\ pc'[p] # "ready"
Answered(p) == pc[p] = "ready" /\ pc'[p] = "done"
Uploading(p) == pc[p] \in {"s3_put", "ddb_put"}
Quiescent == \A p \in Procs : pc[p] \in {"ready", "done"}

OkUploads == {u \in uploads : u.statusCode = 200}
Orphans == {u \in uploads : u.s3_ok /\ ~u.ddb_ok}
HasRecord(k) ==
  \E id \in DOMAIN table : DerivedKey(id, table[id]["file_name"].val) = k

\* ------------------------------------------------------------------ claims
\* C1 as stated: whenever no upload is in progress, a FileRecord (file_id,
\* file_name) exists if and only if a blob exists under {file_id}_{file_name},
\* also after uploads whose blob or metadata write failed.
C1_Original ==
  Quiescent =>
    /\ \A id \in DOMAIN table : DerivedKey(id, table[id]["file_name"].val) \in DOMAIN s3
    /\ \A k \in DOMAIN s3 : HasRecord(k)

\* C1 amended: in every reachable state every FileRecord (file_id, file_name)
\* has a blob under {file_id}_{file_name}; a blob without a FileRecord is the
\* blob of an upload whose metadata write failed or is still to be made.
C1_RecordHasBlob ==
  /\ \A id \in DOMAIN table : DerivedKey(id, table[id]["file_name"].val) \in DOMAIN s3
  /\ \A k \in DOMAIN s3 :
       \/ HasRecord(k)
       \/ \E u \in Orphans : u.key = k
       \/ \E p \in Procs : pc[p] = "ddb_put" /\ frame[p].key = k

\* A record with its blob beside the blob of an upload whose metadata write failed.
C1_Witness ==
  /\ Quiescent
  /\ \E id \in DOMAIN table : DerivedKey(id, table[id]["file_name"].val) \in DOMAIN s3
  /\ \E u \in Orphans : u.key \in DOMAIN s3 /\ ~HasRecord(u.key)

\* C2: every POST /upload whose file_name is missing or empty, or whose
\* file_content is absent or null, is answered 400 "Provide file_name and
\* file_content" and leaves both stores unchanged.
C2_Claim ==
  [][\A p \in Procs :
       (Began(p) /\ IsUploadRequest(req'[p]) /\ LacksInput(req'[p]))
       => /\ ErrorIs(resp'[p], 400, "Provide file_name and file_content")
          /\ s3' = s3
          /\ table' = table]_vars

\* C2 on the bodies that are JSON objects (or absent, or no JSON at all).
C2_ObjectBodies ==
  [][\A p \in Procs :
       (/\ Began(p) /\ IsUploadRequest(req'[p]) /\ LacksInput(req'[p])
        /\ _json_body(req'[p]).type = "dict")
       => /\ ErrorIs(resp'[p], 400, "Provide file_name and file_content")
          /\ s3' = s3
          /\ table' = table]_vars

\* C3: a POST /upload that passes validation is answered 413 with both stores
\* unchanged exactly when its content has more than 20 x 1024 x 1024 bytes;
\* a text of at most that many bytes (the empty one too) goes on to the blob
\* write with its byte length as size.
C3_SizeCap ==
  [][\A p \in Procs :
       (Began(p) /\ IsUploadRequest(req'[p]) /\ IsObject(req'[p]) /\ ~LacksInput(req'[p]))
       => LET c == FieldOf(req'[p], "file_content") IN
          IF c.type = "str" /\ ByteLength(c.val) > 20 * 1024 * 1024
          THEN /\ pc'[p] = "done"
               /\ ErrorIs(resp'[p], 413, "File too large (>20MB)")
               /\ s3' = s3
               /\ table' = table
          ELSE /\ ~(pc'[p] = "done" /\ Status(resp'[p], 413))
               /\ c.type = "str" =>
                    /\ pc'[p] = "s3_put"
                    /\ frame'[p].size_bytes = ByteLength(c.val)]_vars

\* A content of cap + 1 bytes was answered 413.
C3_Witness ==
  \E p \in Procs :
    /\ pc[p] = "done"
    /\ IsUploadRequest(req[p])
    /\ ~LacksInput(req[p])
    /\ FieldOf(req[p], "file_content").type = "str"
    /\ ByteLength(SubmittedText(req[p])) = 20 * 1024 * 1024 + 1
    /\ Status(resp[p], 413)

\* C4: every upload answered 200 with file_id f has, in every later successful
\* listing, exactly one record with file_id f, carrying the submitted
\* file_name and the byte length of the submitted content as size; and f
\* differs from the file_id of every earlier upload answered 200.
C4_UploadThenList ==
  [][\A p \in Procs :
       /\ (Answered(p) /\ IsListRequest(req'[p]) /\ Status(resp'[p], 200))
          => \A u \in OkUploads :
               LET body == resp'[p].body.json
                   hits == {i \in 1 .. Len(body) : body[i]["file_id"].val = u.file_id}
               IN /\ Cardinality(hits) = 1
                  /\ \A i \in hits :
                       /\ body[i]["file_name"].val = SubmittedName(u.event)
                       /\ body[i]["size"] = PyInt(ByteLength(SubmittedText(u.event)))
       /\ (pc[p] = "ddb_put" /\ pc'[p] = "done" /\ Status(resp'[p], 200))
          => resp'[p].body.json.file_id \notin {u.file_id : u \in OkUploads}]_vars

\* A listing of two uploads, one of them of exactly 20 MiB in two-byte characters.
C4_Witness ==
  \E p \in Procs :
    /\ pc[p] = "done"
    /\ IsListRequest(req[p])
    /\ Status(resp[p], 200)
    /\ Cardinality(OkUploads) = 2
    /\ Len(resp[p].body.json) = 2
    /\ \E i \in 1 .. 2 : resp[p].body.json[i]["size"] = PyInt(20 * 1024 * 1024)

\* C5: for every upload answered 200 with file_id f, a later GET /files/{f}
\* (f as it is or percent-encoded) whose store calls succeed is answered 200
\* with a URL pre-signed for the key the upload wrote, and the blob under
\* that key holds the bytes submitted in that upload.
C5_RoundTrip ==
  [][\A p \in Procs : \A u \in OkUploads :
       /\ (/\ Began(p)
           /\ IsDownloadOf(req'[p], u.file_id)
           /\ ~(pc'[p] = "done" /\ Status(resp'[p], 500)))
          => pc'[p] = "presign"
       /\ (/\ pc[p] = "presign"
           /\ pc'[p] = "done"
           /\ IsDownloadOf(req[p], u.file_id)
           /\ ~Status(resp'[p], 500))
          => /\ Status(resp'[p], 200)
             /\ resp'[p].body.json.file_id = u.file_id
             /\ resp'[p].body.json.file_name = SubmittedName(u.event)
             /\ resp'[p].body.json.download_url.Key = u.key
             /\ resp'[p].body.json.download_url.Key \in DOMAIN s3'
             /\ s3'[resp'[p].body.json.download_url.Key].Body
                  = BytesOf(SubmittedText(u.event))]_vars

\* A percent-encoded request for an uploaded file was answered with its URL,
\* after another upload had been made.
C5_Witness ==
  \E p \in Procs : \E u \in OkUploads :
    /\ pc[p] = "done"
    /\ Method(req[p]) = "GET"
    /\ Path(req[p]) = FilesPrefix \o PercentEncode(u.file_id)
    /\ Status(resp[p], 200)
    /\ s3[resp[p].body.json.download_url.Key].Body = BytesOf(SubmittedText(u.event))
    /\ SubmittedText(u.event) # <<>>
    /\ Cardinality(DOMAIN s3) = 2

\* a < b on texts over digits, without recursion.
DigitRank == [c \in {"0", "1", "2"} |-> IF c = "0" THEN 0 ELSE IF c = "1" THEN 1 ELSE 2]
LexLess(a, b) ==
  \E k \in 1 .. Len(b) :
    /\ \A j \in 1 .. (k - 1) : j <= Len(a) /\ a[j] = b[j]
    /\ k > Len(a) \/ DigitRank[a[k]] < DigitRank[b[k]]

HasTimestamp(x) == "upload_timestamp" \in DOMAIN x
TimestampOf(x) == IF HasTimestamp(x) THEN x["upload_timestamp"] ELSE PyStr(<<>>)
Earlier(x, y) ==
  IF TimestampOf(x).type = "str" /\ TimestampOf(y).type = "str"
  THEN LexLess(TimestampOf(x).val, TimestampOf(y).val)
  ELSE TimestampOf(x).type # "str" /\ TimestampOf(y).type # "str"
       /\ TimestampOf(x).val < TimestampOf(y).val

\* C6: whatever the table holds, a successful GET /files is answered 200 with
\* every stored record exactly once (nothing for an empty table), ordered by
\* upload_timestamp descending, a record without upload_timestamp counting as
\* the empty text and so coming after every record that has one.
C6_ListSorted ==
  \A p \in Procs :
    (pc[p] = "done" /\ IsListRequest(req[p]) /\ Status(resp[p], 200))
    => LET body == resp[p].body.json IN
       /\ Len(body) = Cardinality(DOMAIN table)
       /\ \A id \in DOMAIN table :
            LET hits == {i \in 1 .. Len(body) : body[i]["file_id"].val = id} IN
            /\ Cardinality(hits) = 1
            /\ \A i \in hits :
                 /\ DOMAIN body[i] = DOMAIN table[id]
                 /\ body[i]["file_name"] = table[id]["file_name"]
                 /\ HasTimestamp(body[i]) /\ table[id]["upload_timestamp"].type = "str"
                      => body[i]["upload_timestamp"] = table[id]["upload_timestamp"]
       /\ \A i \in 1 .. (Len(body) - 1) : ~Earlier(body[i], body[i + 1])
       /\ \A i, j \in 1 .. Len(body) :
            (i < j /\ HasTimestamp(body[j])) => HasTimestamp(body[i])

\* Three records listed: the newest, one whose timestamp is a longer text that
\* compares smaller, and one without a timestamp.
C6_Witness ==
  \E p \in Procs :
    /\ pc[p] = "done"
    /\ Status(resp[p], 200)
    /\ Len(resp[p].body.json) = 3
    /\ TimestampOf(resp[p].body.json[1]) = PyStr(<<"2">>)
    /\ TimestampOf(resp[p].body.json[2]) = PyStr(<<"1", "0">>)
    /\ ~HasTimestamp(resp[p].body.json[3])

\* The identifiers a download is asked for: the ones uuid4() draws (before,
\* during or after their upload), the empty one, and one of no upload.
AskedIds == Uuids \cup {<<>>, <<"a", "-", "a", "_", "a">>}

\* C7: GET /files/{id} for an id that no record of the table has as file_id
\* (the id of an upload that failed and the empty id of /files/ included) is,
\* when the metadata read succeeds, answered 404 "File not found"; no URL is
\* pre-signed and both stores stay as they are.
C7_UnknownId404 ==
  [][\A p \in Procs : \A id \in AskedIds :
       (/\ Began(p)
        /\ IsDownloadOf(req'[p], id)
        /\ id \notin DOMAIN table
        /\ ~(pc'[p] = "done" /\ Status(resp'[p], 500)))
       => /\ pc'[p] = "done"
          /\ ErrorIs(resp'[p], 404, "File not found")
          /\ s3' = s3
          /\ table' = table]_vars

\* The id of an upload whose metadata write failed was asked for and answered 404.
C7_Witness ==
  \E p \in Procs : \E u \in Orphans :
    /\ pc[p] = "done"
    /\ IsDownloadOf(req[p], u.file_id)
    /\ Status(resp[p], 404)

\* C8: however the steps of uploads running side by side interleave, also
\* with one file_name, each upload writes a blob key and a primary key that no
\* other upload writes; no blob and no record is ever overwritten, and every
\* upload answered 200 keeps its blob and its record.
C8_NoCollision ==
  [][/\ \A p \in Procs :
          /\ (pc[p] = "s3_put" /\ pc'[p] = "ddb_put") => frame[p].key \notin DOMAIN s3
          /\ (pc[p] = "ddb_put" /\ Status(resp'[p], 200))
               => frame[p].file_id \notin DOMAIN table
     /\ \A p, q \in Procs :
          (p # q /\ Uploading(p) /\ Uploading(q))
          => frame[p].key # frame[q].key /\ frame[p].file_id # frame[q].file_id
     /\ \A k \in DOMAIN s3 : k \in DOMAIN s3' /\ s3'[k] = s3[k]
     /\ \A id \in DOMAIN table : id \in DOMAIN table' /\ table'[id] = table[id]
     /\ \A u \in OkUploads' :
          /\ u.key \in DOMAIN s3'
          /\ s3'[u.key].Body = BytesOf(SubmittedText(u.event))
          /\ u.file_id \in DOMAIN table'
          /\ table'[u.file_id]["file_name"].val = SubmittedName(u.event)]_vars

\* Two uploads of one file_name with different contents, both between their
\* blob write and their metadata write.
C8_Witness ==
  \E p, q \in Procs :
    /\ p # q
    /\ pc[p] = "ddb_put"
    /\ pc[q] = "ddb_put"
    /\ frame[p].file_name = frame[q].file_name
    /\ frame[p].data # frame[q].data
    /\ Cardinality(DOMAIN s3) = 2

\* C9: an upload whose blob write succeeds and whose metadata write fails is
\* answered 500 "DynamoDB write failed: ..."; its blob stays in the bucket, no
\* record has its file_id, no listing shows it and a download of it is 404.
C9_OrphanBlob ==
  \A u \in Orphans :
    /\ u.statusCode = 500
    /\ u.error = "DynamoDB write failed: "
    /\ u.key \in DOMAIN s3
    /\ s3[u.key].Body = BytesOf(SubmittedText(u.event))
    /\ u.file_id \notin DOMAIN table
    /\ \A p \in Procs :
         /\ (pc[p] = "done" /\ IsListRequest(req[p]) /\ Status(resp[p], 200))
              => \A i \in 1 .. Len(resp[p].body.json) :
                   resp[p].body.json[i]["file_id"].val # u.file_id
         /\ (pc[p] = "done" /\ IsDownloadOf(req[p], u.file_id) /\ ~Status(resp[p], 500))
              => ErrorIs(resp[p], 404, "File not found")
         /\ IsDownloadOf(req[p], u.file_id) => pc[p] # "presign"

\* After such an upload of a non-empty content, a listing that succeeded.
C9_Witness ==
  \E u \in Orphans : \E p \in Procs :
    /\ SubmittedText(u.event) # <<>>
    /\ u.key \in DOMAIN s3
    /\ pc[p] = "done"
    /\ IsListRequest(req[p])
    /\ Status(resp[p], 200)

\* C10: whatever the event and whatever the store calls do, lambda_handler
\* returns an envelope with status 200, 400, 404, 413 or 500 and never ends
\* by raising.
C10_Claim ==
  \A p \in Procs :
    pc[p] = "done"
    => IsEnvelope(resp[p]) /\ resp[p].statusCode \in {200, 400, 404, 413, 500}

====
